---- MODULE Spec2Model ----
(***************************************************************************)
(* Model of the Vampire library API (namespace Api): the shared            *)
(* environment, the light and full resets, symbol registration, the        *)
(* proving invocation and the proof DAG extractor.                         *)
(*                                                                         *)
(* The specifications share the variables:                                 *)
(*   Spec          the environment: registrations, attempts, resets;       *)
(*   SpecExtract   extractProof, run on every bounded justification DAG;   *)
(*   SpecBuild     registration, full reset and the term builders;         *)
(*   SpecHandles   the handle functions of the C boundary;                 *)
(*   SpecC         vampire_extract_proof and the deallocators;             *)
(*   SpecGraph     extractProof on every bounded parent relation;          *)
(*   SpecGraphFair SpecGraph with the loop running to its return;          *)
(*   SpecUnits     the unit builders and the proof step of a built unit.   *)
(***************************************************************************)
EXTENDS Integers, Sequences, FiniteSets, TLC

\* ------------------------------------------------------------------ bounds
\* Number of units of a justification DAG (unit numbers 1..MaxUnits).
MaxUnits == 3
\* Longest parent list of an Inference record.
MaxParents == 2
\* Registrations (of functions and predicates together) since the start or
\* the last full reset.
MaxSyms == 2
\* Term handles the C boundary hands out, and objects the facade creates.
MaxHandles == 2
\* Blocks malloc hands out.
MaxBlocks == 5
\* Strings and literal arrays the callers hold at a time.
MaxLive == 1
\* Literals of a clause.
MaxLits == 2
\* Largest value of a usage counter, a statistics counter and the elapsed time.
MaxCount == 1
\* Number of proof attempts.
MaxAttempts == 2

VARIABLES
  \* --- extractProof (SpecExtract)
  units,          \* unit number -> [parents: sequence of unit numbers]
  refutation,     \* the argument of extractProof: a unit number, 0 = nullptr
  pc,             \* position in extractProof: "idle", "loop", "done"
  visited,        \* DHSet<unsigned> visited
  toProcess,      \* Stack<Unit*> toProcess, top is the last element
  unitsInOrder,   \* std::vector<Unit*> unitsInOrder
  steps,          \* std::vector<ProofStep> steps, the returned value
  \* --- the shared environment (Spec)
  funs,           \* env.signature: function symbols, id = index - 1
  preds,          \* env.signature: predicate symbols, id = index - 1
  statistics,     \* env.statistics
  globalOrdering, \* Ordering's global handle: 0 = unset, k = attempt k's ordering
  staticCaches,   \* orderings with results in the kernel's static caches
  sharing,        \* env.sharing: caches carried by interned terms and literals
  firstNonPreprocessingNumber, \* Unit's preprocessing-end marker, 0 = reset
  lastNumber,     \* Unit's last assigned number
  exitLock,       \* Timer's EXIT_LOCK is held
  timer_initialized, \* static bool of prepareForNextProof
  timerThread,    \* the timer thread has been started
  elapsed,        \* time since the timer's starting point
  proveCallCount, \* static unsigned _proveCallCount
  lastOp,         \* the caller's last operation other than a registration
  lastAdded,      \* the last registration: kind, name and the id returned
  registered,     \* registrations made since the start or the last reset()
  retired,        \* the names the signature held when reset() discarded it,
                  \* while reset() is the caller's last operation (lastOp)
  result,         \* what prove() and vampire_prove() returned, when the
                  \* last operation was prove
  attempt,        \* the attempt in progress: its problem, and whether it
                  \* started from the view of a fresh environment
  \* --- the callers' side of the construction facade and of the C boundary
  call,           \* the last builder or C API call: function, arguments, result
  termHandles,    \* TermList objects allocated by FROM_TERM and handed out
  created,        \* formulas, units and clauses the facade has created
  heap,           \* malloc's blocks: live, freed, and whether a free was bad
  out_steps,      \* the caller's variable out_steps points to
  out_count,      \* the caller's variable out_count points to
  out_literals    \* the caller's variable out_literals points to

extractVars == <<units, refutation, pc, visited, toProcess, unitsInOrder, steps>>

envVars == <<funs, preds, statistics, globalOrdering, staticCaches, sharing,
             firstNonPreprocessingNumber, lastNumber, exitLock,
             timer_initialized, timerThread, elapsed, proveCallCount,
             lastOp, lastAdded, registered, retired, result, attempt>>

boundaryVars == <<call, termHandles, created, heap, out_steps, out_count,
                  out_literals>>

vars == <<extractVars, envVars, boundaryVars>>

\* ------------------------------------------------------------ helpers
NullUnit == 0

RECURSIVE Reverse(_)
Reverse(s) == IF s = <<>> THEN <<>> ELSE Append(Reverse(Tail(s)), Head(s))

SeqsUpTo(S, n) == UNION { [1..k -> S] : k \in 0..n }

Range(s) == { s[i] : i \in DOMAIN s }

\* ------------------------------------------------- the shared environment
\* Shell::TerminationReason: the reasons prove() names, and the others.
TerminationReasons ==
  {"REFUTATION", "SATISFIABLE", "REFUTATION_NOT_FOUND", "INAPPROPRIATE",
   "UNKNOWN", "TIME_LIMIT", "INSTRUCTION_LIMIT", "MEMORY_LIMIT",
   "ACTIVATION_LIMIT"}

\* The symbols the callers register: (name, arity).
FunctionInputs == {<<"a", 0>>, <<"f", 1>>}
PredicateInputs == {<<"P", 1>>, <<"Q", 1>>}

NewSymbol(name, arity) == [name |-> name, arity |-> arity, usageCnt |-> 0]

\* new Signature(): no function and no predicate.
NewSignatureFuns == <<>>
NewSignaturePreds == <<>>

\* Signature::addEquality: the built-in equality predicate.
AddEquality(ps) == Append(ps, NewSymbol("=", 2))

\* Signature::addFunction / addPredicate: a new symbol at the next dense id.
SignatureAdd(syms, name, arity) == Append(syms, NewSymbol(name, arity))

\* Mutant: the loop clears the table instead of the counters of its symbols.
ResetUsageCnts_ClearsTable(syms) == <<>>

\* The loops of prepareForNextProof over the functions and the predicates:
\* Symbol::resetUsageCnt on every symbol of a table.
ResetUsageCnts(syms) == [i \in DOMAIN syms |-> [syms[i] EXCEPT !.usageCnt = 0]]

\* new Statistics()
NewStatistics ==
  [terminationReason |-> "UNKNOWN",
   activations |-> 0,
   discardedNonRedundantClauses |-> 0,
   inferencesSkippedDueToColors |-> 0,
   refutation |-> NullUnit]

\* Mutant: only the termination reason is cleared, the counters are kept.
ResetAttemptStatistics_ReasonOnly(st) ==
  [st EXCEPT !.terminationReason = "UNKNOWN"]

\* prepareForNextProof's assignments to env.statistics.
ResetAttemptStatistics(st) ==
  [st EXCEPT !.terminationReason = "UNKNOWN",
             !.activations = 0,
             !.discardedNonRedundantClauses = 0,
             !.inferencesSkippedDueToColors = 0]

\* new TermSharing(): no interned term or literal, so no cache entry.
\*   kboWeights   weight cache entries [ord, valid] on interned terms
\*   eqArgOrders  orderings whose equality orientation is cached on literals
\*   terms        the terms and literals the builders have interned
NewTermSharing == [kboWeights |-> {}, eqArgOrders |-> {}, terms |-> {}]

\* Term::invalidateKboWeightCache: the epoch bump makes every entry invalid.
InvalidateKboWeightCache(sh) ==
  [sh EXCEPT !.kboWeights = { [e EXCEPT !.valid = FALSE] : e \in sh.kboWeights }]

\* TermSharing::resetEqualityArgumentOrders
ResetEqualityArgumentOrders(sh) == [sh EXCEPT !.eqArgOrders = {}]

\* Number of symbols the signature holds.
SymbolCount == Len(funs) + Len(preds)

\* ----------------------------------------------------------------- prove
\* Mutant: the INSTRUCTION_LIMIT label is missing, so it takes the default.
ProofResultOf_NoInstructionLimit(reason) ==
  CASE reason = "REFUTATION" -> "PROOF"
    [] reason = "SATISFIABLE" -> "SATISFIABLE"
    [] reason = "TIME_LIMIT" -> "TIMEOUT"
    [] reason = "MEMORY_LIMIT" -> "MEMORY_LIMIT"
    [] reason = "REFUTATION_NOT_FOUND" -> "INCOMPLETE"
    [] OTHER -> "UNKNOWN"

\* Mutant: the labels REFUTATION and SATISFIABLE give each other's result.
ProofResultOf_LabelsSwapped(reason) ==
  CASE reason = "REFUTATION" -> "SATISFIABLE"
    [] reason = "SATISFIABLE" -> "PROOF"
    [] reason \in {"TIME_LIMIT", "INSTRUCTION_LIMIT"} -> "TIMEOUT"
    [] reason = "MEMORY_LIMIT" -> "MEMORY_LIMIT"
    [] reason = "REFUTATION_NOT_FOUND" -> "INCOMPLETE"
    [] OTHER -> "UNKNOWN"

\* The switch of prove() over env.statistics->terminationReason.
ProofResultOf(reason) ==
  CASE reason = "REFUTATION" -> "PROOF"
    [] reason = "SATISFIABLE" -> "SATISFIABLE"
    [] reason \in {"TIME_LIMIT", "INSTRUCTION_LIMIT"} -> "TIMEOUT"
    [] reason = "MEMORY_LIMIT" -> "MEMORY_LIMIT"
    [] reason = "REFUTATION_NOT_FOUND" -> "INCOMPLETE"
    [] OTHER -> "UNKNOWN"

\* The switch of vampire_prove() over the ProofResult.
CProofResultOf(r) ==
  CASE r = "PROOF" -> "VAMPIRE_PROOF"
    [] r = "SATISFIABLE" -> "VAMPIRE_SATISFIABLE"
    [] r = "TIMEOUT" -> "VAMPIRE_TIMEOUT"
    [] r = "MEMORY_LIMIT" -> "VAMPIRE_MEMORY_LIMIT"
    [] r = "INCOMPLETE" -> "VAMPIRE_INCOMPLETE"
    [] OTHER -> "VAMPIRE_UNKNOWN"

\* The attempt-scoped state a search starts from, as the comments of
\* prepareForNextProof name it: what a stale value of each piece does to the
\* next attempt is stated there.
SearchView ==
  [terminationReason |-> statistics.terminationReason,
   activations |-> statistics.activations,
   discardedNonRedundantClauses |-> statistics.discardedNonRedundantClauses,
   inferencesSkippedDueToColors |-> statistics.inferencesSkippedDueToColors,
   usedFunctions |-> { i \in DOMAIN funs : funs[i].usageCnt # 0 },
   usedPredicates |-> { i \in DOMAIN preds : preds[i].usageCnt # 0 },
   globalOrdering |-> globalOrdering,
   staticCaches |-> staticCaches,
   kboWeights |-> { e.ord : e \in { x \in sharing.kboWeights : x.valid } },
   eqArgOrders |-> sharing.eqArgOrders,
   firstNonPreprocessingNumber |-> firstNonPreprocessingNumber,
   exitLock |-> exitLock,
   elapsed |-> elapsed]

\* The view a search has in an environment where no attempt ran before.
FreshSearchView ==
  [terminationReason |-> "UNKNOWN",
   activations |-> 0,
   discardedNonRedundantClauses |-> 0,
   inferencesSkippedDueToColors |-> 0,
   usedFunctions |-> {},
   usedPredicates |-> {},
   globalOrdering |-> 0,
   staticCaches |-> {},
   kboWeights |-> {},
   eqArgOrders |-> {},
   firstNonPreprocessingNumber |-> 0,
   exitLock |-> FALSE,
   elapsed |-> 0]

\* No attempt is in progress.
NoAttempt == [kind |-> "none", fresh |-> TRUE]

\* No prove() has returned since the last other operation.
NoResult == [cpp |-> "none", c |-> "none", attempt |-> NoAttempt]

\* Reasons a limit or an unsupported input can end any attempt with.
LimitReasons ==
  {"TIME_LIMIT", "INSTRUCTION_LIMIT", "MEMORY_LIMIT", "ACTIVATION_LIMIT",
   "INAPPROPRIATE", "UNKNOWN"}

\* The termination reasons the search can end with, for a problem that is
\* unsatisfiable ("unsat") or satisfiable ("sat"), started from a view that
\* is the fresh one or not.
\* From a fresh view an unsatisfiable problem is refuted and a satisfiable
\* one is reported satisfiable or incomplete.  Stale attempt-scoped state
\* makes an unsatisfiable problem appear satisfiable or incomplete.  No view
\* makes a satisfiable problem refuted.
SaturationOutcomes(kind, fresh) ==
  LimitReasons \cup
    (IF kind = "unsat"
       THEN {"REFUTATION"} \cup
            (IF fresh THEN {} ELSE {"SATISFIABLE", "REFUTATION_NOT_FOUND"})
       ELSE {"SATISFIABLE", "REFUTATION_NOT_FOUND"})

\* Every variable of the environment but the named ones is left alone.
SearchFrame(changed) ==
  /\ "funs" \in changed \/ UNCHANGED funs
  /\ "preds" \in changed \/ UNCHANGED preds
  /\ "statistics" \in changed \/ UNCHANGED statistics
  /\ "exitLock" \in changed \/ UNCHANGED exitLock
  /\ "elapsed" \in changed \/ UNCHANGED elapsed
  /\ UNCHANGED <<globalOrdering, staticCaches, sharing,
                 firstNonPreprocessingNumber, lastNumber, timer_initialized,
                 timerThread, proveCallCount, lastOp, lastAdded, registered,
                 retired, result, attempt, extractVars, boundaryVars>>

Searching == attempt.kind # "none"

\* prove(prb) up to the start of the search: Preprocess::preprocess and the
\* set-up of ProvingHelper::runVampireSaturation.  The attempt has its input
\* units, marks the end of preprocessing, installs its own ordering and
\* starts filling the ordering caches under it.
proveBegin ==
  LET ord == proveCallCount + 1 IN
  /\ ~Searching
  /\ proveCallCount < MaxAttempts
  /\ proveCallCount' = ord
  /\ \E kind \in {"unsat", "sat"} :
       attempt' = [kind |-> kind, fresh |-> (SearchView = FreshSearchView)]
  /\ lastNumber' = lastNumber + 1
  /\ firstNonPreprocessingNumber' = lastNumber + 2
  /\ globalOrdering' = ord
  /\ staticCaches' = staticCaches \cup {ord}
  /\ sharing' = [sharing EXCEPT
                   !.kboWeights = @ \cup {[ord |-> ord, valid |-> TRUE]},
                   !.eqArgOrders = @ \cup {ord}]
  /\ lastOp' = "prove"
  /\ retired' = {}
  /\ result' = NoResult
  /\ UNCHANGED <<funs, preds, statistics, exitLock, timer_initialized,
                 timerThread, elapsed, lastAdded, registered, extractVars, boundaryVars>>

\* The search activates a clause.
SearchActivate ==
  /\ Searching
  /\ statistics.activations < MaxCount
  /\ statistics' = [statistics EXCEPT !.activations = @ + 1]
  /\ SearchFrame({"statistics"})

\* The search discards a non-redundant clause.
SearchDiscard ==
  /\ Searching
  /\ statistics.discardedNonRedundantClauses < MaxCount
  /\ statistics' = [statistics EXCEPT !.discardedNonRedundantClauses = @ + 1]
  /\ SearchFrame({"statistics"})

\* The search skips an inference because of colors.
SearchSkipColor ==
  /\ Searching
  /\ statistics.inferencesSkippedDueToColors < MaxCount
  /\ statistics' = [statistics EXCEPT !.inferencesSkippedDueToColors = @ + 1]
  /\ SearchFrame({"statistics"})

\* The search counts a use of a function symbol.
SearchUseFunction ==
  /\ Searching
  /\ \E i \in DOMAIN funs :
       /\ funs[i].usageCnt < MaxCount
       /\ funs' = [funs EXCEPT ![i].usageCnt = @ + 1]
  /\ SearchFrame({"funs"})

\* The search counts a use of a predicate symbol.
SearchUsePredicate ==
  /\ Searching
  /\ \E i \in DOMAIN preds :
       /\ preds[i].usageCnt < MaxCount
       /\ preds' = [preds EXCEPT ![i].usageCnt = @ + 1]
  /\ SearchFrame({"preds"})

\* Time passes during the search.
SearchTick ==
  /\ Searching
  /\ elapsed < MaxCount
  /\ elapsed' = elapsed + 1
  /\ SearchFrame({"elapsed"})

\* Timer::disableLimitEnforcement: EXIT_LOCK is locked and not unlocked.
DisableLimitEnforcement ==
  /\ Searching
  /\ ~exitLock
  /\ exitLock' = TRUE
  /\ SearchFrame({"exitLock"})

\* The time limit of an attempt, in ticks of the timer.
TimeLimit == MaxCount

\* The deadline timer ends the search: the time since the timer's starting
\* point has reached the limit, or a termination reason is already recorded
\* (the timer thread and the saturation loop trigger on it at once).
TimerTriggers ==
  elapsed >= TimeLimit \/ statistics.terminationReason # "UNKNOWN"

\* The end of prove(prb): the search records how it ended (and the
\* refutation it found), prove() classifies the termination reason, and
\* vampire_prove() converts the ProofResult.  A search that ends without a
\* refutation stores none: it leaves the handle as it is or stores null.
proveEnd ==
  /\ Searching
  /\ \E reason \in SaturationOutcomes(attempt.kind, attempt.fresh) :
       /\ reason = "TIME_LIMIT" => TimerTriggers
       /\ \E ref \in IF reason = "REFUTATION"
                       THEN {lastNumber + 1}
                       ELSE {statistics.refutation, NullUnit} :
            statistics' = [statistics EXCEPT
                             !.terminationReason = reason,
                             !.refutation = ref]
       /\ lastNumber' = IF reason = "REFUTATION" THEN lastNumber + 1 ELSE lastNumber
  /\ result' = [cpp |-> ProofResultOf(statistics'.terminationReason),
                c |-> CProofResultOf(ProofResultOf(statistics'.terminationReason)),
                attempt |-> attempt]
  /\ attempt' = NoAttempt
  /\ UNCHANGED <<funs, preds, globalOrdering, staticCaches, sharing,
                 firstNonPreprocessingNumber, exitLock, timer_initialized,
                 timerThread, elapsed, proveCallCount, lastOp, lastAdded,
                 registered, retired, extractVars, boundaryVars>>

\* getRefutation()
getRefutation == statistics.refutation

\* ---------------------------------------------------- symbol registration
\* No symbol has been registered since the start or the last full reset.
NoSymbol == [kind |-> "none", name |-> "", id |-> 0]

\* Names of the symbols of a table.
NamesOf(syms) == { syms[i].name : i \in DOMAIN syms }

\* Mutant: a name and arity already registered gives the first symbol's id.
addFunction_Dedup ==
  /\ ~Searching
  /\ registered < MaxSyms
  /\ \E in \in FunctionInputs :
       LET same == { i \in DOMAIN funs :
                      funs[i].name = in[1] /\ funs[i].arity = in[2] }
       IN  IF same = {}
             THEN /\ funs' = SignatureAdd(funs, in[1], in[2])
                  /\ lastAdded' = [kind |-> "function", name |-> in[1],
                                   id |-> Len(funs') - 1]
             ELSE /\ funs' = funs
                  /\ lastAdded' = [kind |-> "function", name |-> in[1],
                                   id |-> (CHOOSE i \in same : TRUE) - 1]
  /\ registered' = registered + 1
  /\ UNCHANGED <<preds, statistics, globalOrdering, staticCaches, sharing,
                 firstNonPreprocessingNumber, lastNumber, exitLock,
                 timer_initialized, timerThread, elapsed, proveCallCount,
                 lastOp, retired, result, attempt, extractVars, boundaryVars>>

\* addFunction(name, arity), and vampire_add_function around it: the functor
\* Signature::addFunction returns.
addFunction ==
  /\ ~Searching
  /\ registered < MaxSyms
  /\ \E in \in FunctionInputs :
       /\ funs' = SignatureAdd(funs, in[1], in[2])
       /\ lastAdded' = [kind |-> "function", name |-> in[1], id |-> Len(funs') - 1]
  /\ registered' = registered + 1
  /\ UNCHANGED <<preds, statistics, globalOrdering, staticCaches, sharing,
                 firstNonPreprocessingNumber, lastNumber, exitLock,
                 timer_initialized, timerThread, elapsed, proveCallCount,
                 lastOp, retired, result, attempt, extractVars, boundaryVars>>

\* addPredicate(name, arity), and vampire_add_predicate around it.
addPredicate ==
  /\ ~Searching
  /\ registered < MaxSyms
  /\ \E in \in PredicateInputs :
       /\ preds' = SignatureAdd(preds, in[1], in[2])
       /\ lastAdded' = [kind |-> "predicate", name |-> in[1], id |-> Len(preds') - 1]
  /\ registered' = registered + 1
  /\ UNCHANGED <<funs, statistics, globalOrdering, staticCaches, sharing,
                 firstNonPreprocessingNumber, lastNumber, exitLock,
                 timer_initialized, timerThread, elapsed, proveCallCount,
                 lastOp, retired, result, attempt, extractVars, boundaryVars>>

\* --------------------------------------------------------------- resets
\* Timer::reinitialise starts the timer thread.  What it does to the timer's
\* starting point and to EXIT_LOCK is not fixed by the callers: it may leave
\* each as it is or reset it.
TimerReinitialise ==
  /\ timerThread' = TRUE
  /\ elapsed' \in {elapsed, 0}
  /\ exitLock' \in {exitLock, FALSE}

\* Mutant: the light reset only unsets the global ordering.
prepareForNextProof_OrderingOnly ==
  /\ ~Searching
  /\ globalOrdering' = 0
  /\ lastOp' = "prepareForNextProof"
  /\ retired' = {}
  /\ result' = NoResult
  /\ UNCHANGED <<funs, preds, statistics, staticCaches, sharing,
                 firstNonPreprocessingNumber, lastNumber, exitLock,
                 timer_initialized, timerThread, elapsed, proveCallCount,
                 lastAdded, registered, attempt, extractVars, boundaryVars>>

\* Mutant: the static ordering caches are not reset.
prepareForNextProof_KeepsStaticCaches ==
  /\ ~Searching
  \* Timer::reinitialise() on the first call only
  /\ timer_initialized' = TRUE
  /\ timerThread' = TRUE
  \* Timer::resetStartTime()
  /\ elapsed' = 0
  \* terminationReason = UNKNOWN and the three counters = 0
  /\ statistics' = ResetAttemptStatistics(statistics)
  \* Unit::resetPreprocessingEnd()
  /\ firstNonPreprocessingNumber' = 0
  \* Ordering::unsetGlobalOrdering()
  /\ globalOrdering' = 0
  \* Term:: ... EqualityProxyMono::resetStaticCaches()
  /\ staticCaches' = staticCaches
  \* resetUsageCnt() on every function and predicate
  /\ funs' = ResetUsageCnts(funs)
  /\ preds' = ResetUsageCnts(preds)
  \* Term::invalidateKboWeightCache(), env.sharing->resetEqualityArgumentOrders()
  /\ sharing' = ResetEqualityArgumentOrders(InvalidateKboWeightCache(sharing))
  \* Timer::resetLimitEnforcement()
  /\ exitLock' = FALSE
  /\ lastOp' = "prepareForNextProof"
  /\ retired' = {}
  /\ result' = NoResult
  /\ UNCHANGED <<lastNumber, proveCallCount, lastAdded, registered, attempt,
                 extractVars, boundaryVars>>

\* Mutant: Timer::resetLimitEnforcement() is not called.
prepareForNextProof_KeepsLatch ==
  /\ ~Searching
  \* Timer::reinitialise() on the first call only
  /\ timer_initialized' = TRUE
  /\ timerThread' = TRUE
  \* Timer::resetStartTime()
  /\ elapsed' = 0
  \* terminationReason = UNKNOWN and the three counters = 0
  /\ statistics' = ResetAttemptStatistics(statistics)
  \* Unit::resetPreprocessingEnd()
  /\ firstNonPreprocessingNumber' = 0
  \* Ordering::unsetGlobalOrdering()
  /\ globalOrdering' = 0
  \* Term:: ... EqualityProxyMono::resetStaticCaches()
  /\ staticCaches' = {}
  \* resetUsageCnt() on every function and predicate
  /\ funs' = ResetUsageCnts(funs)
  /\ preds' = ResetUsageCnts(preds)
  \* Term::invalidateKboWeightCache(), env.sharing->resetEqualityArgumentOrders()
  /\ sharing' = ResetEqualityArgumentOrders(InvalidateKboWeightCache(sharing))
  \* Timer::resetLimitEnforcement()
  /\ exitLock' = exitLock
  /\ lastOp' = "prepareForNextProof"
  /\ retired' = {}
  /\ result' = NoResult
  /\ UNCHANGED <<lastNumber, proveCallCount, lastAdded, registered, attempt,
                 extractVars, boundaryVars>>

\* Mutant: Timer::resetStartTime() is not called.
prepareForNextProof_KeepsStartTime ==
  /\ ~Searching
  \* Timer::reinitialise() on the first call only
  /\ timer_initialized' = TRUE
  /\ timerThread' = TRUE
  \* Timer::resetStartTime()
  /\ elapsed' = elapsed
  \* terminationReason = UNKNOWN and the three counters = 0
  /\ statistics' = ResetAttemptStatistics(statistics)
  \* Unit::resetPreprocessingEnd()
  /\ firstNonPreprocessingNumber' = 0
  \* Ordering::unsetGlobalOrdering()
  /\ globalOrdering' = 0
  \* Term:: ... EqualityProxyMono::resetStaticCaches()
  /\ staticCaches' = {}
  \* resetUsageCnt() on every function and predicate
  /\ funs' = ResetUsageCnts(funs)
  /\ preds' = ResetUsageCnts(preds)
  \* Term::invalidateKboWeightCache(), env.sharing->resetEqualityArgumentOrders()
  /\ sharing' = ResetEqualityArgumentOrders(InvalidateKboWeightCache(sharing))
  \* Timer::resetLimitEnforcement()
  /\ exitLock' = FALSE
  /\ lastOp' = "prepareForNextProof"
  /\ retired' = {}
  /\ result' = NoResult
  /\ UNCHANGED <<lastNumber, proveCallCount, lastAdded, registered, attempt,
                 extractVars, boundaryVars>>

\* Mutant: Unit::resetPreprocessingEnd() is not called.
prepareForNextProof_KeepsPreprocessingEnd ==
  /\ ~Searching
  \* Timer::reinitialise() on the first call only
  /\ timer_initialized' = TRUE
  /\ timerThread' = TRUE
  \* Timer::resetStartTime()
  /\ elapsed' = 0
  \* terminationReason = UNKNOWN and the three counters = 0
  /\ statistics' = ResetAttemptStatistics(statistics)
  \* Unit::resetPreprocessingEnd()
  /\ firstNonPreprocessingNumber' = firstNonPreprocessingNumber
  \* Ordering::unsetGlobalOrdering()
  /\ globalOrdering' = 0
  \* Term:: ... EqualityProxyMono::resetStaticCaches()
  /\ staticCaches' = {}
  \* resetUsageCnt() on every function and predicate
  /\ funs' = ResetUsageCnts(funs)
  /\ preds' = ResetUsageCnts(preds)
  \* Term::invalidateKboWeightCache(), env.sharing->resetEqualityArgumentOrders()
  /\ sharing' = ResetEqualityArgumentOrders(InvalidateKboWeightCache(sharing))
  \* Timer::resetLimitEnforcement()
  /\ exitLock' = FALSE
  /\ lastOp' = "prepareForNextProof"
  /\ retired' = {}
  /\ result' = NoResult
  /\ UNCHANGED <<lastNumber, proveCallCount, lastAdded, registered, attempt,
                 extractVars, boundaryVars>>

\* Mutant: the latch is toggled instead of released.
prepareForNextProof_TogglesLatch ==
  /\ ~Searching
  \* Timer::reinitialise() on the first call only
  /\ timer_initialized' = TRUE
  /\ timerThread' = TRUE
  \* Timer::resetStartTime()
  /\ elapsed' = 0
  \* terminationReason = UNKNOWN and the three counters = 0
  /\ statistics' = ResetAttemptStatistics(statistics)
  \* Unit::resetPreprocessingEnd()
  /\ firstNonPreprocessingNumber' = 0
  \* Ordering::unsetGlobalOrdering()
  /\ globalOrdering' = 0
  \* Term:: ... EqualityProxyMono::resetStaticCaches()
  /\ staticCaches' = {}
  \* resetUsageCnt() on every function and predicate
  /\ funs' = ResetUsageCnts(funs)
  /\ preds' = ResetUsageCnts(preds)
  \* Term::invalidateKboWeightCache(), env.sharing->resetEqualityArgumentOrders()
  /\ sharing' = ResetEqualityArgumentOrders(InvalidateKboWeightCache(sharing))
  \* Timer::resetLimitEnforcement()
  /\ exitLock' = ~exitLock
  /\ lastOp' = "prepareForNextProof"
  /\ retired' = {}
  /\ result' = NoResult
  /\ UNCHANGED <<lastNumber, proveCallCount, lastAdded, registered, attempt,
                 extractVars, boundaryVars>>

\* prepareForNextProof(): the light reset.
prepareForNextProof ==
  /\ ~Searching
  \* Timer::reinitialise() on the first call only
  /\ timer_initialized' = TRUE
  /\ timerThread' = TRUE
  \* Timer::resetStartTime()
  /\ elapsed' = 0
  \* terminationReason = UNKNOWN and the three counters = 0
  /\ statistics' = ResetAttemptStatistics(statistics)
  \* Unit::resetPreprocessingEnd()
  /\ firstNonPreprocessingNumber' = 0
  \* Ordering::unsetGlobalOrdering()
  /\ globalOrdering' = 0
  \* Term:: ... EqualityProxyMono::resetStaticCaches()
  /\ staticCaches' = {}
  \* resetUsageCnt() on every function and predicate
  /\ funs' = ResetUsageCnts(funs)
  /\ preds' = ResetUsageCnts(preds)
  \* Term::invalidateKboWeightCache(), env.sharing->resetEqualityArgumentOrders()
  /\ sharing' = ResetEqualityArgumentOrders(InvalidateKboWeightCache(sharing))
  \* Timer::resetLimitEnforcement()
  /\ exitLock' = FALSE
  /\ lastOp' = "prepareForNextProof"
  /\ retired' = {}
  /\ result' = NoResult
  /\ UNCHANGED <<lastNumber, proveCallCount, lastAdded, registered, attempt,
                 extractVars, boundaryVars>>

\* Mutant: the signature is not replaced.
reset_KeepsSignature ==
  /\ ~Searching
  /\ TimerReinitialise
  /\ globalOrdering' = 0
  /\ staticCaches' = {}
  /\ sharing' = NewTermSharing
  /\ statistics' = NewStatistics
  /\ lastOp' = "reset"
  /\ lastAdded' = NoSymbol
  /\ registered' = 0
  /\ retired' = NamesOf(funs) \cup NamesOf(preds)
  /\ result' = NoResult
  /\ UNCHANGED <<funs, preds, firstNonPreprocessingNumber, lastNumber,
                 timer_initialized, proveCallCount, attempt, extractVars, boundaryVars>>

\* reset(): the full reset.
reset ==
  /\ ~Searching
  \* Timer::reinitialise()
  /\ TimerReinitialise
  \* Ordering::unsetGlobalOrdering()
  /\ globalOrdering' = 0
  \* Term:: ... EqualityProxyMono::resetStaticCaches()
  /\ staticCaches' = {}
  \* delete and recreate env.signature (with equality), env.sharing,
  \* env.statistics
  /\ funs' = NewSignatureFuns
  /\ preds' = AddEquality(NewSignaturePreds)
  /\ sharing' = NewTermSharing
  /\ statistics' = NewStatistics
  /\ lastOp' = "reset"
  /\ lastAdded' = NoSymbol
  /\ registered' = 0
  /\ retired' = NamesOf(funs) \cup NamesOf(preds)
  /\ result' = NoResult
  /\ UNCHANGED <<firstNonPreprocessingNumber, lastNumber, timer_initialized,
                 proveCallCount, attempt, extractVars, boundaryVars>>

\* ------------------------------------------------------- specifications
\* The environment as constructed before main(): an empty signature holding
\* the built-in equality, fresh statistics and sharing, no ordering.
EnvFresh ==
  /\ funs = NewSignatureFuns
  /\ preds = AddEquality(NewSignaturePreds)
  /\ statistics = NewStatistics
  /\ globalOrdering = 0
  /\ staticCaches = {}
  /\ sharing = NewTermSharing
  /\ firstNonPreprocessingNumber = 0
  /\ lastNumber = 0
  /\ exitLock = FALSE
  /\ timer_initialized = FALSE
  /\ timerThread = FALSE
  /\ elapsed = 0
  /\ proveCallCount = 0
  /\ lastOp = "start"
  /\ lastAdded = NoSymbol
  /\ registered = 0
  /\ retired = {}
  /\ result = NoResult
  /\ attempt = NoAttempt

\* No extraction is running.
ExtractIdle ==
  /\ units = [u \in 1..MaxUnits |-> [parents |-> <<>>]]
  /\ refutation = NullUnit
  /\ pc = "idle"
  /\ visited = {}
  /\ toProcess = <<>>
  /\ unitsInOrder = <<>>
  /\ steps = <<>>

\* No builder and no C API function has been called.
NoCall == [fn |-> "none"]

\* The heap before any malloc.
EmptyHeap == [live |-> {}, freed |-> {}, bad |-> FALSE]

\* The value of a caller's output variable that no call has written.
Unwritten == [kind |-> "unwritten"]

BoundaryIdle ==
  /\ call = NoCall
  /\ termHandles = 0
  /\ created = 0
  /\ heap = EmptyHeap
  /\ out_steps = Unwritten
  /\ out_count = Unwritten
  /\ out_literals = Unwritten

Init == EnvFresh /\ ExtractIdle /\ BoundaryIdle

Next ==
  \/ addFunction
  \/ addPredicate
  \/ proveBegin
  \/ SearchActivate
  \/ SearchDiscard
  \/ SearchSkipColor
  \/ SearchUseFunction
  \/ SearchUsePredicate
  \/ SearchTick
  \/ DisableLimitEnforcement
  \/ proveEnd
  \/ prepareForNextProof
  \/ reset

Spec == Init /\ [][Next]_vars

\* ------------------------------------------------ the construction facade
\* The ids the callers pass to the builders: registered ones and others.
BuilderIds == 0..(MaxSyms + 1)

\* The null pointer: a Literal* or a C handle that names nothing.
NullPtr == [kind |-> "null"]

\* The empty TermList, which refers to no term.
EmptyTermList == [kind |-> "empty"]

\* Term::createConstant / Term::create: the interned application of a
\* registered functor; for a functor that is not registered, no term.
TermCreate(functor) ==
  IF functor + 1 \in DOMAIN funs
    THEN [kind |-> "term", sym |-> functor]
    ELSE NullPtr

\* Literal::create: the interned literal of a registered predicate; for a
\* predicate that is not registered, no literal.
LiteralCreate(pred) ==
  IF pred + 1 \in DOMAIN preds
    THEN [kind |-> "literal", sym |-> pred]
    ELSE NullPtr

\* TermList(Term*): the list referring to the term, empty for no term.
TermListOf(t) == IF t = NullPtr THEN EmptyTermList ELSE t

\* TermSharing after the creation of t.
Intern(sh, t) ==
  IF t \in {NullPtr, EmptyTermList} THEN sh ELSE [sh EXCEPT !.terms = @ \cup {t}]

\* FROM_TERM(t): a new TermList object on the heap, holding a copy of t.
FromTerm(t) == [kind |-> "handle", term |-> t]

\* What a builder leaves alone: everything but env.sharing, the record of
\* the call and the handles.
BuilderFrame ==
  UNCHANGED <<funs, preds, statistics, globalOrdering, staticCaches,
              firstNonPreprocessingNumber, lastNumber, exitLock,
              timer_initialized, timerThread, elapsed, proveCallCount,
              lastOp, lastAdded, registered, retired, result, attempt,
              extractVars, created, heap, out_steps, out_count, out_literals>>

\* constant(functor)
constant ==
  /\ ~Searching
  /\ \E functor \in BuilderIds :
       LET t == TermListOf(TermCreate(functor)) IN
       /\ call' = [fn |-> "constant", id |-> functor, ret |-> t]
       /\ sharing' = Intern(sharing, t)
  /\ UNCHANGED termHandles
  /\ BuilderFrame

\* term(functor, args), both overloads.  The arguments are terms built
\* before; what is modelled of the result depends on the functor only.
term ==
  /\ ~Searching
  /\ \E functor \in BuilderIds :
       LET t == TermListOf(TermCreate(functor)) IN
       /\ call' = [fn |-> "term", id |-> functor, ret |-> t]
       /\ sharing' = Intern(sharing, t)
  /\ UNCHANGED termHandles
  /\ BuilderFrame

\* lit(pred, positive, args), both overloads
lit ==
  /\ ~Searching
  /\ \E pred \in BuilderIds :
       LET l == LiteralCreate(pred) IN
       /\ call' = [fn |-> "lit", id |-> pred, ret |-> l]
       /\ sharing' = Intern(sharing, l)
  /\ UNCHANGED termHandles
  /\ BuilderFrame

\* vampire_constant(functor): FROM_TERM(Api::constant(functor))
vampire_constant ==
  /\ ~Searching
  /\ termHandles < MaxHandles
  /\ \E functor \in BuilderIds :
       LET t == TermListOf(TermCreate(functor)) IN
       /\ call' = [fn |-> "vampire_constant", id |-> functor, ret |-> FromTerm(t)]
       /\ sharing' = Intern(sharing, t)
  /\ termHandles' = termHandles + 1
  /\ BuilderFrame

\* vampire_term(functor, args, arg_count): FROM_TERM(Api::term(functor, cpp_args))
vampire_term ==
  /\ ~Searching
  /\ termHandles < MaxHandles
  /\ \E functor \in BuilderIds :
       LET t == TermListOf(TermCreate(functor)) IN
       /\ call' = [fn |-> "vampire_term", id |-> functor, ret |-> FromTerm(t)]
       /\ sharing' = Intern(sharing, t)
  /\ termHandles' = termHandles + 1
  /\ BuilderFrame

\* vampire_lit(pred, positive, args, arg_count): FROM_LITERAL(Api::lit(...))
vampire_lit ==
  /\ ~Searching
  /\ \E pred \in BuilderIds :
       LET l == LiteralCreate(pred) IN
       /\ call' = [fn |-> "vampire_lit", id |-> pred, ret |-> l]
       /\ sharing' = Intern(sharing, l)
  /\ UNCHANGED termHandles
  /\ BuilderFrame

\* Registration, full reset and the builders.
NextBuild ==
  \/ addFunction
  \/ addPredicate
  \/ reset
  \/ constant
  \/ term
  \/ lit
  \/ vampire_constant
  \/ vampire_term
  \/ vampire_lit

SpecBuild == Init /\ [][NextBuild]_vars

\* ----------------------------------------------------------------- malloc
\* Number of blocks malloc has handed out.
BlocksUsed(h) == Cardinality(h.live \cup h.freed)

\* The block the next successful malloc returns.
NextBlock(h) == [kind |-> "block", n |-> BlocksUsed(h) + 1]

\* The callers can take one more string or literal array.
CanHold(h) == BlocksUsed(h) < MaxBlocks /\ Cardinality(h.live) < MaxLive

\* The heap after a successful malloc.
Malloc(h) == [h EXCEPT !.live = @ \cup {NextBlock(h)}]

\* free(p): nothing for the null pointer; a live block is released once;
\* anything else (a block freed before, a pointer malloc never returned) is
\* recorded as a bad free.
Free(h, p) ==
  IF p = NullPtr THEN h
  ELSE IF p \in h.live
    THEN [h EXCEPT !.live = @ \ {p}, !.freed = @ \cup {p}]
    ELSE [h EXCEPT !.bad = TRUE]

\* -------------------------------------- C API functions taking a handle
\* Handles of objects built before, as the callers pass them.
ALiteral == [kind |-> "literal", sym |-> 0]
AFormula == [kind |-> "formula", literal |-> ALiteral]
ATerm == FromTerm([kind |-> "term", sym |-> 0])
Clauses == { [kind |-> "clause", length |-> n] : n \in 0..MaxLits }
Units == Clauses \cup {[kind |-> "unit", formula |-> AFormula]}

\* Values of C's int and bool as the functions return them.
CInt(n) == [kind |-> "int", value |-> n]
CBool(b) == [kind |-> "bool", value |-> b]

\* What a call may come to once it has dereferenced a null pointer.
UndefinedResults == {NullPtr, [kind |-> "garbage"], [kind |-> "crash"]}

\* Literal::complementaryLiteral: the complement; for no literal, none.
ComplementaryLiteral(l) == l

\* What a function of the C boundary leaves alone besides env.sharing,
\* Unit's last number, the created objects, the heap and the record of the
\* call.
HandleFrame ==
  UNCHANGED <<funs, preds, statistics, globalOrdering, staticCaches,
              firstNonPreprocessingNumber, exitLock, timer_initialized,
              timerThread, elapsed, lastOp, lastAdded, registered, retired,
              result, attempt, extractVars, termHandles, out_steps, out_count>>

\* vampire_neg(l): FROM_LITERAL(Api::neg(TO_LITERAL(l)))
vampire_neg ==
  /\ ~Searching
  /\ \E l \in {NullPtr, ALiteral} :
       /\ call' = [fn |-> "vampire_neg", arg |-> l, ret |-> ComplementaryLiteral(l)]
       /\ sharing' = Intern(sharing, ComplementaryLiteral(l))
  /\ UNCHANGED <<lastNumber, proveCallCount, created, heap, out_literals>>
  /\ HandleFrame

\* vampire_atom(l): FROM_FORMULA(Api::atom(TO_LITERAL(l))), and atom(l) is
\* new AtomicFormula(l).
vampire_atom ==
  /\ ~Searching
  /\ created < MaxHandles
  /\ \E l \in {NullPtr, ALiteral} :
       call' = [fn |-> "vampire_atom", arg |-> l,
                ret |-> [kind |-> "formula", literal |-> l]]
  /\ created' = created + 1
  /\ UNCHANGED <<sharing, lastNumber, proveCallCount, heap, out_literals>>
  /\ HandleFrame

\* vampire_axiom_formula(f): FROM_UNIT(Api::axiomF(TO_FORMULA(f))), and
\* axiomF(f) is new FormulaUnit(f, ...), which takes the next unit number.
vampire_axiom_formula ==
  /\ ~Searching
  /\ created < MaxHandles
  /\ \E f \in {NullPtr, AFormula} :
       call' = [fn |-> "vampire_axiom_formula", arg |-> f,
                ret |-> [kind |-> "unit", formula |-> f]]
  /\ created' = created + 1
  /\ lastNumber' = lastNumber + 1
  /\ UNCHANGED <<sharing, proveCallCount, heap, out_literals>>
  /\ HandleFrame

\* The tags of Kernel::UnitInputType the API names, and another of its
\* values.
UnitInputTypes == {"AXIOM", "NEGATED_CONJECTURE", "CONJECTURE", "ASSUMPTION"}

\* The values of vampire_input_type_t, and a value outside the enumeration.
CInputTypes ==
  {"VAMPIRE_AXIOM", "VAMPIRE_NEGATED_CONJECTURE", "VAMPIRE_CONJECTURE",
   "out of range"}

\* The switch of vampire_clause over input_type.
CppInputTypeOf(input_type) ==
  CASE input_type = "VAMPIRE_AXIOM" -> "AXIOM"
    [] input_type = "VAMPIRE_NEGATED_CONJECTURE" -> "NEGATED_CONJECTURE"
    [] input_type = "VAMPIRE_CONJECTURE" -> "CONJECTURE"
    [] OTHER -> "AXIOM"

\* Mutant: the labels of the two conjecture tags give each other's value.
convert_input_type_ConjecturesSwapped(input_type) ==
  CASE input_type = "AXIOM" -> "VAMPIRE_AXIOM"
    [] input_type = "NEGATED_CONJECTURE" -> "VAMPIRE_CONJECTURE"
    [] input_type = "CONJECTURE" -> "VAMPIRE_NEGATED_CONJECTURE"
    [] OTHER -> "VAMPIRE_AXIOM"

\* The switch of convert_input_type.
convert_input_type(input_type) ==
  CASE input_type = "AXIOM" -> "VAMPIRE_AXIOM"
    [] input_type = "NEGATED_CONJECTURE" -> "VAMPIRE_NEGATED_CONJECTURE"
    [] input_type = "CONJECTURE" -> "VAMPIRE_CONJECTURE"
    [] OTHER -> "VAMPIRE_AXIOM"

\* The switch of convert_inference_rule.
convert_inference_rule(rule) ==
  CASE rule = "INPUT" -> "VAMPIRE_RULE_INPUT"
    [] rule = "RESOLUTION" -> "VAMPIRE_RULE_RESOLUTION"
    [] rule = "FACTORING" -> "VAMPIRE_RULE_FACTORING"
    [] rule = "SUPERPOSITION" -> "VAMPIRE_RULE_SUPERPOSITION"
    [] rule = "EQUALITY_RESOLUTION" -> "VAMPIRE_RULE_EQUALITY_RESOLUTION"
    [] rule = "EQUALITY_FACTORING" -> "VAMPIRE_RULE_EQUALITY_FACTORING"
    [] rule = "CLAUSIFY" -> "VAMPIRE_RULE_CLAUSIFY"
    [] OTHER -> "VAMPIRE_RULE_OTHER"

\* Kernel's FromInput(inputType): the inference of an input unit.
FromInput(inputType) ==
  [rule |-> "INPUT", inputType |-> inputType, parents |-> <<>>]

\* Kernel's NonspecificInference0(inputType, rule): an inference with no
\* premise.
NonspecificInference0(inputType, rule) ==
  [rule |-> rule, inputType |-> inputType, parents |-> <<>>]

\* vampire_clause(literals, count, input_type): the loop reads literals[i]
\* for i < count, the switch converts input_type, then Api::clause builds a
\* clause of count literals.
vampire_clause ==
  /\ ~Searching
  /\ created < MaxHandles
  /\ \E literals \in {NullPtr, [kind |-> "array"]}, count \in 0..1,
        input_type \in CInputTypes :
       IF literals = NullPtr /\ count > 0
         THEN /\ \E r \in UndefinedResults :
                   call' = [fn |-> "vampire_clause", arg |-> literals,
                            input_type |-> input_type, ret |-> r]
              /\ UNCHANGED <<created, lastNumber>>
         ELSE /\ call' = [fn |-> "vampire_clause", arg |-> literals,
                          input_type |-> input_type,
                          ret |-> [kind |-> "clause", length |-> count,
                                   number |-> lastNumber + 1,
                                   inference |->
                                     NonspecificInference0(
                                       CppInputTypeOf(input_type), "INPUT")]]
              /\ created' = created + 1
              /\ lastNumber' = lastNumber + 1
  /\ UNCHANGED <<sharing, proveCallCount, heap, out_literals>>
  /\ HandleFrame

\* vampire_prove(NULL): Api::prove(nullptr) sets the main problem, counts
\* the call and then binds *prb for Preprocess::preprocess.
vampire_prove_NullProblem ==
  /\ ~Searching
  /\ proveCallCount < MaxAttempts
  /\ proveCallCount' = proveCallCount + 1
  /\ \E r \in UndefinedResults :
       call' = [fn |-> "vampire_prove", arg |-> NullPtr, ret |-> r]
  /\ UNCHANGED <<sharing, lastNumber, created, heap, out_literals>>
  /\ HandleFrame

\* vampire_unit_as_clause(unit)
vampire_unit_as_clause ==
  /\ ~Searching
  /\ \E unit \in {NullPtr} \cup Units :
       call' = [fn |-> "vampire_unit_as_clause", arg |-> unit,
                ret |-> IF unit = NullPtr THEN NullPtr
                        ELSE IF unit.kind = "clause" THEN unit ELSE NullPtr]
  /\ UNCHANGED <<sharing, lastNumber, proveCallCount, created, heap, out_literals>>
  /\ HandleFrame

\* vampire_clause_is_empty(clause)
vampire_clause_is_empty ==
  /\ ~Searching
  /\ \E clause \in {NullPtr} \cup Clauses :
       call' = [fn |-> "vampire_clause_is_empty", arg |-> clause,
                ret |-> IF clause = NullPtr THEN CBool(FALSE)
                        ELSE CBool(clause.length = 0)]
  /\ UNCHANGED <<sharing, lastNumber, proveCallCount, created, heap, out_literals>>
  /\ HandleFrame

\* The body shared by the four *_to_string functions: null for a null
\* handle; else the rendering is copied into a malloc'ed block, and the
\* result is null when malloc fails.
HandleToString(fn, handles) ==
  /\ ~Searching
  /\ \E h \in {NullPtr} \cup handles :
       \/ /\ h = NullPtr
          /\ call' = [fn |-> fn, arg |-> h, ret |-> NullPtr]
          /\ UNCHANGED heap
       \/ /\ h # NullPtr
          /\ call' = [fn |-> fn, arg |-> h, ret |-> NullPtr]
          /\ UNCHANGED heap
       \/ /\ h # NullPtr
          /\ CanHold(heap)
          /\ call' = [fn |-> fn, arg |-> h, ret |-> NextBlock(heap)]
          /\ heap' = Malloc(heap)
  /\ UNCHANGED <<sharing, lastNumber, proveCallCount, created, out_literals>>
  /\ HandleFrame

vampire_term_to_string == HandleToString("vampire_term_to_string", {ATerm})

vampire_literal_to_string == HandleToString("vampire_literal_to_string", {ALiteral})

vampire_clause_to_string == HandleToString("vampire_clause_to_string", Clauses)

vampire_formula_to_string == HandleToString("vampire_formula_to_string", {AFormula})

\* vampire_free_string(str), for a string a *_to_string function returned.
vampire_free_string ==
  /\ ~Searching
  /\ call.fn \in {"vampire_term_to_string", "vampire_literal_to_string",
                  "vampire_clause_to_string", "vampire_formula_to_string"}
  /\ heap' = Free(heap, call.ret)
  /\ call' = [fn |-> "vampire_free_string", arg |-> call.ret, ret |-> NullPtr]
  /\ UNCHANGED <<sharing, lastNumber, proveCallCount, created, out_literals>>
  /\ HandleFrame

\* vampire_get_literals(clause, out_literals, out_count)
vampire_get_literals ==
  /\ ~Searching
  /\ pc # "loop"
  /\ \E clause \in {NullPtr} \cup Clauses, outs \in BOOLEAN :
       \/ /\ clause = NullPtr \/ ~outs
          /\ call' = [fn |-> "vampire_get_literals", arg |-> clause,
                      outs |-> outs, ret |-> CInt(-1)]
          /\ UNCHANGED <<heap, out_literals, out_count>>
       \/ /\ clause # NullPtr /\ outs
          /\ clause.length = 0
          /\ call' = [fn |-> "vampire_get_literals", arg |-> clause,
                      outs |-> outs, ret |-> CInt(0)]
          /\ out_literals' = NullPtr
          /\ out_count' = 0
          /\ UNCHANGED heap
       \/ /\ clause # NullPtr /\ outs
          /\ clause.length > 0
          /\ call' = [fn |-> "vampire_get_literals", arg |-> clause,
                      outs |-> outs, ret |-> CInt(-1)]
          /\ UNCHANGED <<heap, out_literals, out_count>>
       \/ /\ clause # NullPtr /\ outs
          /\ clause.length > 0
          /\ CanHold(heap)
          /\ call' = [fn |-> "vampire_get_literals", arg |-> clause,
                      outs |-> outs, ret |-> CInt(0)]
          /\ heap' = Malloc(heap)
          /\ out_literals' = NextBlock(heap)
          /\ out_count' = clause.length
  /\ UNCHANGED <<funs, preds, statistics, globalOrdering, staticCaches, sharing,
                 firstNonPreprocessingNumber, lastNumber, exitLock,
                 timer_initialized, timerThread, elapsed, proveCallCount,
                 lastOp, lastAdded, registered, retired, result, attempt,
                 extractVars, termHandles, created, out_steps>>

\* vampire_free_literals(literals), for the array the last successful
\* vampire_get_literals stored.
vampire_free_literals ==
  /\ ~Searching
  /\ pc # "loop"
  /\ call.fn = "vampire_get_literals"
  /\ call.ret = CInt(0)
  /\ heap' = Free(heap, out_literals)
  /\ call' = [fn |-> "vampire_free_literals", arg |-> out_literals, ret |-> NullPtr]
  /\ UNCHANGED <<sharing, lastNumber, proveCallCount, created, out_literals>>
  /\ HandleFrame

\* The functions of the C boundary that take a handle.
NextHandles ==
  \/ vampire_neg
  \/ vampire_atom
  \/ vampire_axiom_formula
  \/ vampire_clause
  \/ vampire_prove_NullProblem
  \/ vampire_unit_as_clause
  \/ vampire_clause_is_empty
  \/ vampire_term_to_string
  \/ vampire_literal_to_string
  \/ vampire_clause_to_string
  \/ vampire_formula_to_string
  \/ vampire_free_string
  \/ vampire_get_literals
  \/ vampire_free_literals

SpecHandles == Init /\ [][NextHandles]_vars

\* ----------------------------------------------------------- the unit DAG
\* A unit's parents have numbers assigned strictly earlier than its own.
UnitDags ==
  { d \in [1..MaxUnits -> [parents : SeqsUpTo(1..MaxUnits, MaxParents)]] :
      \A u \in 1..MaxUnits : \A i \in DOMAIN d[u].parents : d[u].parents[i] < u }

\* Inference::iterator / hasNext / next: the parents in the record's order.
Parents(u) == units[u].parents

\* Units reachable from u through parent edges, u included.
RECURSIVE ReachableFrom(_)
ReachableFrom(u) ==
  {u} \cup UNION { ReachableFrom(p) : p \in Range(units[u].parents) }

\* ------------------------------------------------------------ extractProof
\* The loop collecting premise ids: push_back of the number of each parent
\* the iterator yields, from position i on.
RECURSIVE CollectPremiseIds(_, _, _)
CollectPremiseIds(parents, i, premiseIds) ==
  IF i > Len(parents) THEN premiseIds
  ELSE CollectPremiseIds(parents, i + 1, Append(premiseIds, parents[i]))

\* Mutant: the premise ids are collected in the opposite order.
ProofStepOf_PremisesReversed(u) ==
  [id |-> u, premiseIds |-> Reverse(CollectPremiseIds(Parents(u), 1, <<>>))]

\* The ProofStep built for unit u (id and premise ids).
ProofStepOf(u) == [id |-> u, premiseIds |-> CollectPremiseIds(Parents(u), 1, <<>>)]

BuildSteps(order) == [i \in DOMAIN order |-> ProofStepOf(order[i])]

\* Mutant: the null handle is treated as a unit with no inference.
ExtractNull_NoNullCheck ==
  /\ pc = "idle"
  /\ refutation = NullUnit
  /\ steps' = <<[id |-> NullUnit, premiseIds |-> <<>>]>>
  /\ pc' = "done"
  /\ UNCHANGED <<units, refutation, visited, toProcess, unitsInOrder, envVars, boundaryVars>>

\* if (!refutation) return steps;
ExtractNull ==
  /\ pc = "idle"
  /\ refutation = NullUnit
  /\ steps' = <<>>
  /\ pc' = "done"
  /\ UNCHANGED <<units, refutation, visited, toProcess, unitsInOrder, envVars, boundaryVars>>

\* toProcess.push(refutation);
ExtractStart ==
  /\ pc = "idle"
  /\ refutation # NullUnit
  /\ toProcess' = <<refutation>>
  /\ visited' = {}
  /\ unitsInOrder' = <<>>
  /\ pc' = "loop"
  /\ UNCHANGED <<units, refutation, steps, envVars, boundaryVars>>

\* Mutant: an already visited unit is left on top of the stack.
ExtractSkip_NoPop ==
  /\ pc = "loop"
  /\ toProcess # <<>>
  /\ LET current == toProcess[Len(toProcess)]
     IN  /\ current \in visited
         /\ toProcess' = toProcess
  /\ UNCHANGED <<units, refutation, pc, visited, unitsInOrder, steps, envVars, boundaryVars>>

\* One iteration of the while loop whose popped unit was already visited.
ExtractSkip ==
  /\ pc = "loop"
  /\ toProcess # <<>>
  /\ LET current == toProcess[Len(toProcess)]
     IN  /\ current \in visited
         /\ toProcess' = SubSeq(toProcess, 1, Len(toProcess) - 1)
  /\ UNCHANGED <<units, refutation, pc, visited, unitsInOrder, steps, envVars, boundaryVars>>

\* Mutant: the popped unit is recorded without consulting the visited set.
ExtractVisit_NoVisitedSet ==
  /\ pc = "loop"
  /\ toProcess # <<>>
  /\ LET current == toProcess[Len(toProcess)]
     IN  /\ visited' = visited \cup {current}
         /\ unitsInOrder' = Append(unitsInOrder, current)
         /\ toProcess' = SubSeq(toProcess, 1, Len(toProcess) - 1) \o Parents(current)
  /\ UNCHANGED <<units, refutation, pc, steps, envVars, boundaryVars>>

\* One iteration of the while loop that records the popped unit and pushes
\* its parents.
ExtractVisit ==
  /\ pc = "loop"
  /\ toProcess # <<>>
  /\ LET current == toProcess[Len(toProcess)]
     IN  /\ current \notin visited
         /\ visited' = visited \cup {current}
         /\ unitsInOrder' = Append(unitsInOrder, current)
         /\ toProcess' = SubSeq(toProcess, 1, Len(toProcess) - 1) \o Parents(current)
  /\ UNCHANGED <<units, refutation, pc, steps, envVars, boundaryVars>>

\* Mutant: the discovery order is returned without being reversed.
ExtractBuild_NoReverse ==
  /\ pc = "loop"
  /\ toProcess = <<>>
  /\ steps' = BuildSteps(unitsInOrder)
  /\ pc' = "done"
  /\ UNCHANGED <<units, refutation, visited, toProcess, unitsInOrder, envVars, boundaryVars>>

\* After the loop: std::reverse, then one ProofStep per unit, then return.
ExtractBuild ==
  /\ pc = "loop"
  /\ toProcess = <<>>
  /\ steps' = BuildSteps(Reverse(unitsInOrder))
  /\ pc' = "done"
  /\ UNCHANGED <<units, refutation, visited, toProcess, unitsInOrder, envVars, boundaryVars>>

\* ------------------------------------------------- vampire_extract_proof
\* The handle of a unit at the C boundary: FROM_UNIT.
FromUnit(u) == IF u = NullUnit THEN NullPtr ELSE [kind |-> "unit", number |-> u]

\* free(steps[j].premise_ids) for the first n steps, in the order of the loop.
RECURSIVE FreePremiseIds(_, _, _)
FreePremiseIds(h, csteps, n) ==
  IF n = 0 THEN h
  ELSE Free(FreePremiseIds(h, csteps, n - 1), csteps[n].premise_ids)

\* Mutant: the premise arrays are released, the step array is not.
FailureCleanup_KeepsArray(h, csteps, stepsBlock) ==
  FreePremiseIds(h, csteps, Len(csteps))

\* The clean-up when the premise array of step i cannot be allocated: the
\* premise arrays of the steps before i (csteps), then the step array.
FailureCleanup(h, csteps, stepsBlock) ==
  Free(FreePremiseIds(h, csteps, Len(csteps)), stepsBlock)

\* The loop over cpp_steps from index i on.  h is the heap, csteps the steps
\* filled so far, mallocs the number of malloc calls made, and the malloc
\* call number failAt returns null.
RECURSIVE FillSteps(_, _, _, _, _, _, _)
FillSteps(cpp_steps, i, h, csteps, stepsBlock, mallocs, failAt) ==
  IF i > Len(cpp_steps)
    THEN [ret |-> 0, heap |-> h, steps |-> csteps]
    ELSE
      LET cpp_step == cpp_steps[i]
          premise_count == Len(cpp_step.premiseIds)
      IN  IF premise_count > 0
            THEN IF mallocs + 1 = failAt
                   THEN [ret |-> -1,
                         heap |-> FailureCleanup(h, csteps, stepsBlock),
                         steps |-> <<>>]
                   ELSE FillSteps(cpp_steps, i + 1, Malloc(h),
                          Append(csteps,
                                 [id |-> cpp_step.id,
                                  premise_count |-> premise_count,
                                  premise_ids |-> NextBlock(h),
                                  premises |-> cpp_step.premiseIds]),
                          stepsBlock, mallocs + 1, failAt)
            ELSE FillSteps(cpp_steps, i + 1, h,
                   Append(csteps,
                          [id |-> cpp_step.id,
                           premise_count |-> 0,
                           premise_ids |-> NullPtr,
                           premises |-> <<>>]),
                   stepsBlock, mallocs, failAt)

\* What vampire_extract_proof and vampire_free_proof_steps leave alone.
ExtractCFrame ==
  UNCHANGED <<envVars, extractVars, termHandles, created, out_literals>>

\* vampire_extract_proof(refutation, out_steps, out_count), the return at
\* the argument check: one of the three pointers is null.
vampire_extract_proof_Invalid ==
  /\ pc = "idle"
  /\ \E outs \in BOOLEAN :
       /\ refutation = NullUnit \/ ~outs
       /\ call' = [fn |-> "vampire_extract_proof", arg |-> FromUnit(refutation),
                   outs |-> outs, ret |-> CInt(-1)]
  /\ UNCHANGED <<heap, out_steps, out_count>>
  /\ ExtractCFrame

\* vampire_extract_proof(refutation, out_steps, out_count) from the return of
\* Api::extractProof on: cpp_steps is the sequence it returned.  The malloc
\* call number failAt returns null (none when failAt is 0 or large).
vampire_extract_proof ==
  /\ pc = "done"
  /\ refutation # NullUnit
  /\ BlocksUsed(heap) + Len(steps) + 1 <= MaxBlocks
  /\ \E failAt \in 0..(MaxUnits + 1) :
       LET cpp_steps == steps
           stepsBlock == NextBlock(heap)
           r == FillSteps(cpp_steps, 1, Malloc(heap), <<>>, stepsBlock, 1, failAt)
       IN  IF cpp_steps = <<>>
             THEN /\ out_steps' = NullPtr
                  /\ out_count' = 0
                  /\ call' = [fn |-> "vampire_extract_proof",
                              arg |-> FromUnit(refutation), outs |-> TRUE,
                              ret |-> CInt(0)]
                  /\ UNCHANGED heap
             ELSE IF failAt = 1
               THEN /\ call' = [fn |-> "vampire_extract_proof",
                                arg |-> FromUnit(refutation), outs |-> TRUE,
                                ret |-> CInt(-1)]
                    /\ UNCHANGED <<heap, out_steps, out_count>>
               ELSE /\ heap' = r.heap
                    /\ call' = [fn |-> "vampire_extract_proof",
                                arg |-> FromUnit(refutation), outs |-> TRUE,
                                ret |-> CInt(r.ret)]
                    /\ IF r.ret = 0
                         THEN /\ out_steps' = [kind |-> "steps",
                                               block |-> stepsBlock,
                                               steps |-> r.steps]
                              /\ out_count' = Len(cpp_steps)
                         ELSE UNCHANGED <<out_steps, out_count>>
  /\ ExtractCFrame

\* Mutant: only the step array is released.
vampire_free_proof_steps_ArrayOnly ==
  /\ pc = "done"
  /\ call.fn = "vampire_extract_proof"
  /\ call.ret = CInt(0)
  /\ heap' = IF out_steps = NullPtr THEN heap ELSE Free(heap, out_steps.block)
  /\ call' = [fn |-> "vampire_free_proof_steps", arg |-> out_steps, ret |-> NullPtr]
  /\ UNCHANGED <<out_steps, out_count>>
  /\ ExtractCFrame

\* vampire_free_proof_steps(steps, count), called with what the last
\* successful vampire_extract_proof stored.
vampire_free_proof_steps ==
  /\ pc = "done"
  /\ call.fn = "vampire_extract_proof"
  /\ call.ret = CInt(0)
  /\ heap' = IF out_steps = NullPtr THEN heap
             ELSE Free(FreePremiseIds(heap, out_steps.steps, out_count),
                       out_steps.block)
  /\ call' = [fn |-> "vampire_free_proof_steps", arg |-> out_steps, ret |-> NullPtr]
  /\ UNCHANGED <<out_steps, out_count>>
  /\ ExtractCFrame

InitExtract ==
  /\ EnvFresh
  /\ BoundaryIdle
  /\ units \in UnitDags
  /\ refutation \in 0..MaxUnits
  /\ pc = "idle"
  /\ visited = {}
  /\ toProcess = <<>>
  /\ unitsInOrder = <<>>
  /\ steps = <<>>

NextExtract ==
  \/ ExtractNull
  \/ ExtractStart
  \/ ExtractSkip
  \/ ExtractVisit
  \/ ExtractBuild

SpecExtract == InitExtract /\ [][NextExtract]_vars

\* ------------------------------------------------- units of the facade
\* The formulas and the literal lists the callers give to the unit builders.
Formulas ==
  {AFormula, [kind |-> "formula", literal |-> [kind |-> "literal", sym |-> 1]]}
LiteralLists ==
  SeqsUpTo({ALiteral, [kind |-> "literal", sym |-> 1]}, MaxLits)

\* new NegatedFormula(f)
NegatedFormula(f) == [kind |-> "not", arg |-> f]

\* new FormulaUnit(f, inference): takes the next unit number.
FormulaUnit(f, inference) ==
  [kind |-> "unit", number |-> lastNumber + 1, formula |-> f,
   inference |-> inference]

\* Clause::fromLiterals / Clause::fromArray: takes the next unit number.
ClauseFromLiterals(literals, inference) ==
  [kind |-> "clause", number |-> lastNumber + 1, literals |-> literals,
   length |-> Len(literals), inference |-> inference]

\* A unit builder returns u for the argument arg.
Built(fn, arg, u) ==
  /\ ~Searching
  /\ created < MaxHandles
  /\ call' = [fn |-> fn, arg |-> arg, ret |-> u]
  /\ created' = created + 1
  /\ lastNumber' = lastNumber + 1
  /\ UNCHANGED <<sharing, proveCallCount, heap, out_literals>>
  /\ HandleFrame

\* axiomF(f)
axiomF ==
  \E f \in Formulas : Built("axiomF", f, FormulaUnit(f, FromInput("AXIOM")))

\* Mutant: the formula is not negated.
conjectureF_NotNegated ==
  \E f \in Formulas :
    Built("conjectureF", f, FormulaUnit(f, FromInput("NEGATED_CONJECTURE")))

\* conjectureF(f)
conjectureF ==
  \E f \in Formulas :
    LET negated == NegatedFormula(f)
    IN  Built("conjectureF", f,
              FormulaUnit(negated, FromInput("NEGATED_CONJECTURE")))

\* clause(literals, inputType), as axiom and conjecture call it.
ClauseOf(literals, inputType) ==
  ClauseFromLiterals(literals, NonspecificInference0(inputType, "INPUT"))

\* axiom(literals)
axiom ==
  \E literals \in LiteralLists :
    Built("axiom", literals, ClauseOf(literals, "AXIOM"))

\* conjecture(literals)
conjecture ==
  \E literals \in LiteralLists :
    Built("conjecture", literals, ClauseOf(literals, "NEGATED_CONJECTURE"))

\* clause(literals, inputType)
clause ==
  \E literals \in LiteralLists, inputType \in UnitInputTypes :
    Built("clause", literals, ClauseOf(literals, inputType))

\* The functions that build units.
UnitBuilders ==
  {"axiomF", "conjectureF", "axiom", "conjecture", "clause", "vampire_clause"}

\* The step of a proof for the unit the last builder call returned:
\* extractProof builds the ProofStep from the unit's number and inference,
\* vampire_extract_proof converts it.
ExtractStepOfUnit ==
  /\ ~Searching
  /\ call.fn \in UnitBuilders
  /\ call.ret.kind \in {"unit", "clause"}
  /\ LET u == call.ret
         cpp_step == [id |-> u.number,
                      rule |-> u.inference.rule,
                      inputType |-> u.inference.inputType,
                      premiseIds |-> CollectPremiseIds(u.inference.parents, 1, <<>>)]
         premise_count == Len(cpp_step.premiseIds)
     IN  call' = [fn |-> "proof step", of |-> call, cpp_step |-> cpp_step,
                  step |-> [id |-> cpp_step.id,
                            rule |-> convert_inference_rule(cpp_step.rule),
                            input_type |-> convert_input_type(cpp_step.inputType),
                            premise_count |-> premise_count,
                            premise_ids |-> IF premise_count > 0
                                              THEN [kind |-> "array"]
                                              ELSE NullPtr]]
  /\ UNCHANGED <<sharing, lastNumber, proveCallCount, created, heap, out_literals>>
  /\ HandleFrame

NextUnits ==
  \/ axiomF
  \/ conjectureF
  \/ axiom
  \/ conjecture
  \/ clause
  \/ vampire_clause
  \/ ExtractStepOfUnit

\* The unit builders of the facade and the proof step of each unit built.
SpecUnits == Init /\ [][NextUnits]_vars

\* Parent relations without the numbering invariant: a parent may have any
\* number, so the relation may have cycles.
UnitGraphs == [1..MaxUnits -> [parents : SeqsUpTo(1..MaxUnits, MaxParents)]]

\* The units reached from the set S in at most n parent steps.
RECURSIVE ParentClosure(_, _)
ParentClosure(S, n) ==
  IF n = 0 THEN S
  ELSE ParentClosure(S \cup UNION { Range(units[u].parents) : u \in S }, n - 1)

\* The justification graph reachable from u contains a cycle.
CyclicFrom(u) ==
  \E v \in ParentClosure({u}, MaxUnits) :
    v \in ParentClosure(Range(units[v].parents), MaxUnits)

InitGraph ==
  /\ EnvFresh
  /\ BoundaryIdle
  /\ units \in UnitGraphs
  /\ refutation \in 1..MaxUnits
  /\ pc = "idle"
  /\ visited = {}
  /\ toProcess = <<>>
  /\ unitsInOrder = <<>>
  /\ steps = <<>>

NextGraph ==
  \/ ExtractStart
  \/ ExtractSkip
  \/ ExtractVisit
  \/ ExtractBuild

\* extractProof on every bounded parent relation, cyclic ones included.
SpecGraph == InitGraph /\ [][NextGraph]_vars

\* extractProof is sequential code: once called, it keeps executing its next
\* statement until it returns.
SpecGraphFair == SpecGraph /\ WF_vars(NextGraph)

\* Proof extraction and literal access at the C boundary: inside
\* vampire_extract_proof, Api::extractProof runs as in SpecExtract.
NextC ==
  \/ ExtractStart
  \/ ExtractSkip
  \/ ExtractVisit
  \/ ExtractBuild
  \/ vampire_extract_proof_Invalid
  \/ vampire_extract_proof
  \/ vampire_free_proof_steps
  \/ vampire_get_literals
  \/ vampire_free_literals

SpecC == InitExtract /\ [][NextC]_vars

\* ------------------------------------------------------------ properties
\* Positions of the steps whose id is u in the returned sequence.
PositionsOf(u) == { p \in DOMAIN steps : steps[p].id = u }

\* C1: in the sequence extractProof returns, every premise id of the step at
\* position p is the id of a step at a position strictly less than p.
C1_PremisesPrecede ==
  pc = "done" =>
    \A p \in DOMAIN steps : \A i \in DOMAIN steps[p].premiseIds :
      \E q \in 1..(p - 1) : steps[q].id = steps[p].premiseIds[i]

\* C2: extractProof(terminal) returns exactly one step per unit reachable from
\* the terminal through parent edges, and no step for any other unit.
C2_ExactlyReachable ==
  (pc = "done" /\ refutation # NullUnit) =>
    /\ Len(steps) = Cardinality(ReachableFrom(refutation))
    /\ \A u \in ReachableFrom(refutation) : Cardinality(PositionsOf(u)) = 1
    /\ \A p \in DOMAIN steps : steps[p].id \in ReachableFrom(refutation)

\* A finished extraction over a DAG where unit 1 is reached along two paths
\* of different length (3 -> 1 and 3 -> 2 -> 1).
C2_Witness ==
  /\ pc = "done"
  /\ refutation = 3
  /\ units[3].parents = <<2, 1>>
  /\ units[2].parents = <<1>>
  /\ Len(steps) = 3

\* C3: for a non-null terminal, the last returned step is the terminal's.
C3_TerminalLast ==
  (pc = "done" /\ refutation # NullUnit) =>
    /\ steps # <<>>
    /\ steps[Len(steps)].id = refutation

\* A finished extraction of a terminal that has premises.
C3_Witness ==
  /\ pc = "done"
  /\ refutation # NullUnit
  /\ Len(steps) >= 2
  /\ steps[Len(steps)].premiseIds # <<>>

\* C4: extractProof(nullptr) returns the empty sequence.
C4_NullGivesEmpty ==
  (pc = "done" /\ refutation = NullUnit) => steps = <<>>

\* extractProof has returned for the null handle.
C4_Witness ==
  /\ pc = "done"
  /\ refutation = NullUnit
  /\ toProcess = <<>>
  /\ visited = {}


\* An API operation other than a registration has returned, no attempt is in
\* progress, and op was the last such operation.
Returned(op) == lastOp = op /\ ~Searching

\* C5: after prepareForNextProof every registered function and predicate
\* symbol's usage counter is zero, and the statistics counters activations,
\* discardedNonRedundantClauses and inferencesSkippedDueToColors are zero.
C5_LightResetZeroesCounters ==
  Returned("prepareForNextProof") =>
    /\ \A i \in DOMAIN funs : funs[i].usageCnt = 0
    /\ \A i \in DOMAIN preds : preds[i].usageCnt = 0
    /\ statistics.activations = 0
    /\ statistics.discardedNonRedundantClauses = 0
    /\ statistics.inferencesSkippedDueToColors = 0

\* The light reset has run after an attempt that found a refutation, with a
\* function and a predicate registered beside the equality.
C5_Witness ==
  /\ Returned("prepareForNextProof")
  /\ statistics.refutation # NullUnit
  /\ Len(funs) >= 1
  /\ Len(preds) >= 2

\* What prepareForNextProof establishes, one conjunct per step.
LightResetPost ==
  /\ statistics.terminationReason = "UNKNOWN"
  /\ statistics.activations = 0
  /\ statistics.discardedNonRedundantClauses = 0
  /\ statistics.inferencesSkippedDueToColors = 0
  /\ \A i \in DOMAIN funs : funs[i].usageCnt = 0
  /\ \A i \in DOMAIN preds : preds[i].usageCnt = 0
  /\ globalOrdering = 0
  /\ staticCaches = {}
  /\ \A e \in sharing.kboWeights : ~e.valid
  /\ sharing.eqArgOrders = {}
  /\ firstNonPreprocessingNumber = 0
  /\ ~exitLock
  /\ elapsed = 0

\* C6: after reset() every postcondition of the light reset holds: the
\* termination reason is cleared, the three counters and all usage counters
\* are zero, the ordering is unset, the ordering-dependent caches are
\* invalidated, the preprocessing-end marker is reset, the latch is released
\* and the timer's starting point is reset.
C6_FullResetDoesLightReset ==
  Returned("reset") => LightResetPost

\* C7: after reset() the signature holds no function and one predicate, the
\* equality; a registration made afterwards, also of a name the discarded
\* signature held, returns the id of the symbol it added; and the symbol
\* count is the equality plus the registrations made since the reset.
C7_FullResetGivesFreshSignature ==
  Returned("reset") =>
    /\ registered = 0 => (funs = <<>> /\ preds = <<NewSymbol("=", 2)>>)
    /\ Len(preds) >= 1 /\ preds[1] = NewSymbol("=", 2)
    /\ SymbolCount = 1 + registered
    /\ lastAdded.kind = "function" =>
         /\ lastAdded.id + 1 \in DOMAIN funs
         /\ funs[lastAdded.id + 1].name = lastAdded.name
    /\ lastAdded.kind = "predicate" =>
         /\ lastAdded.id + 1 \in DOMAIN preds
         /\ preds[lastAdded.id + 1].name = lastAdded.name

\* After an attempt and reset(), a function name the discarded signature held
\* has been registered again.
C7_Witness ==
  /\ Returned("reset")
  /\ proveCallCount >= 1
  /\ lastAdded.kind = "function"
  /\ lastAdded.name \in retired
  /\ registered >= 1

SigShape(syms) == [i \in DOMAIN syms |-> <<syms[i].name, syms[i].arity>>]

\* C9: prepareForNextProof leaves the number of functions and predicates and
\* the name and arity bound to every id unchanged, and the id a registration
\* returned before it still names that symbol after it.
C9_LightResetKeepsSignature ==
  [][prepareForNextProof =>
       /\ SigShape(funs') = SigShape(funs)
       /\ SigShape(preds') = SigShape(preds)
       /\ lastAdded.kind = "function" =>
            /\ lastAdded.id + 1 \in DOMAIN funs'
            /\ funs'[lastAdded.id + 1].name = lastAdded.name
       /\ lastAdded.kind = "predicate" =>
            /\ lastAdded.id + 1 \in DOMAIN preds'
            /\ preds'[lastAdded.id + 1].name = lastAdded.name]_vars

\* The light reset has run after an attempt over a signature with a function
\* and a predicate registered beside the equality.
C9_Witness ==
  /\ Returned("prepareForNextProof")
  /\ proveCallCount >= 1
  /\ registered = 2
  /\ Len(funs) = 1
  /\ Len(preds) = 2
  /\ sharing.eqArgOrders = {}

\* The values of ProofResult.
ProofResults ==
  {"PROOF", "SATISFIABLE", "TIMEOUT", "MEMORY_LIMIT", "UNKNOWN", "INCOMPLETE"}

\* C10: when prove() has returned, its result is the class of the recorded
\* termination reason (REFUTATION: PROOF, SATISFIABLE: SATISFIABLE,
\* TIME_LIMIT and INSTRUCTION_LIMIT: TIMEOUT, MEMORY_LIMIT: MEMORY_LIMIT,
\* REFUTATION_NOT_FOUND: INCOMPLETE, any other: UNKNOWN), it is a ProofResult
\* for every reason, and vampire_prove returns the value of the same name.
C10_ClassificationTotal ==
  Returned("prove") =>
    LET reason == statistics.terminationReason IN
    /\ reason \in TerminationReasons
    /\ result.cpp \in ProofResults
    /\ reason = "REFUTATION" => result.cpp = "PROOF"
    /\ reason = "SATISFIABLE" => result.cpp = "SATISFIABLE"
    /\ reason = "TIME_LIMIT" => result.cpp = "TIMEOUT"
    /\ reason = "INSTRUCTION_LIMIT" => result.cpp = "TIMEOUT"
    /\ reason = "MEMORY_LIMIT" => result.cpp = "MEMORY_LIMIT"
    /\ reason = "REFUTATION_NOT_FOUND" => result.cpp = "INCOMPLETE"
    /\ reason \in {"INAPPROPRIATE", "UNKNOWN", "ACTIVATION_LIMIT"} =>
         result.cpp = "UNKNOWN"
    /\ result.c = "VAMPIRE_" \o result.cpp

\* prove() has returned UNKNOWN for a reason its switch does not name.
C10_Witness ==
  /\ Returned("prove")
  /\ statistics.terminationReason = "ACTIVATION_LIMIT"
  /\ result.cpp = "UNKNOWN"
  /\ result.c = "VAMPIRE_UNKNOWN"


BuilderCall ==
  constant \/ term \/ lit \/ vampire_constant \/ vampire_term \/ vampire_lit

\* The id given to the builder call c is not one the signature holds.
UnknownId(c) ==
  IF c.fn \in {"lit", "vampire_lit"}
    THEN c.id + 1 \notin DOMAIN preds
    ELSE c.id + 1 \notin DOMAIN funs

\* C12: a term or literal builder, or its C wrapper, given an id outside the
\* registered range returns an invalid marker (a null pointer or the empty
\* term list) and creates no term, literal or handle.
C12_BuildersRejectUnknownIds ==
  [][(BuilderCall /\ UnknownId(call')) =>
       /\ call'.ret \in {NullPtr, EmptyTermList}
       /\ sharing'.terms = sharing.terms
       /\ termHandles' = termHandles]_vars


\* A call of a C API function that takes a handle, made with the null handle.
NullHandleCall == "arg" \in DOMAIN call' /\ call'.arg = NullPtr /\ call' # call

\* C13: a C API function given a null required handle returns null or its
\* sentinel (false, -1) and changes nothing: no object or block is created,
\* no unit number taken, no attempt counted.
C13_NullHandleRejected ==
  [][NullHandleCall =>
       /\ call'.ret \in {NullPtr, CBool(FALSE), CInt(-1)}
       /\ UNCHANGED <<envVars, extractVars, termHandles, created, heap,
                      out_steps, out_count, out_literals>>]_vars


\* C14: when a malloc fails inside vampire_extract_proof, the function
\* returns -1, every block it allocated has been freed (once), and
\* *out_steps and *out_count are as before the call.
C14_AllocationFailureLeaksNothing ==
  [][(vampire_extract_proof /\ call'.ret = CInt(-1)) =>
       /\ heap'.live = heap.live
       /\ heap'.freed \cap heap.live = {}
       /\ ~heap'.bad
       /\ out_steps' = out_steps
       /\ out_count' = out_count]_vars

\* vampire_extract_proof has failed after allocating the step array and a
\* premise array.
C14_Witness ==
  /\ call.fn = "vampire_extract_proof"
  /\ call.ret = CInt(-1)
  /\ call.arg # NullPtr
  /\ call.outs
  /\ Cardinality(heap.freed) >= 2
  /\ out_steps = Unwritten

\* C15: vampire_extract_proof called with the null refutation handle and
\* valid output pointers returns 0 and stores the empty sequence
\* (*out_count = 0, *out_steps = NULL).
C15_NoRefutationIsNotAnError ==
  (call.fn = "vampire_extract_proof" /\ call.arg = NullPtr /\ call.outs) =>
    /\ call.ret = CInt(0)
    /\ out_count = 0
    /\ out_steps = NullPtr


\* The blocks of a stored step array: the array and every premise array.
BlocksOfSteps(o) ==
  IF o \in {NullPtr, Unwritten} THEN {}
  ELSE ({o.block} \cup {o.steps[i].premise_ids : i \in DOMAIN o.steps}) \ {NullPtr}

\* C20: a successful vampire_extract_proof allocates exactly the step array
\* and the premise arrays of the steps that have premises (null for the
\* others); vampire_free_proof_steps with the returned count frees each of
\* them once and nothing of the call stays allocated.  The same for the
\* array of vampire_get_literals and vampire_free_literals.
C20_DeallocatorsReleaseEverything ==
  [][/\ (vampire_extract_proof /\ call'.ret = CInt(0)) =>
          /\ heap'.live \ heap.live = BlocksOfSteps(out_steps')
          /\ \A i \in DOMAIN out_steps'.steps :
               out_steps'.steps[i].premise_count = 0
                 <=> out_steps'.steps[i].premise_ids = NullPtr
     /\ vampire_free_proof_steps =>
          /\ BlocksOfSteps(out_steps) \subseteq heap.live
          /\ heap'.live = heap.live \ BlocksOfSteps(out_steps)
          /\ heap'.freed = heap.freed \cup BlocksOfSteps(out_steps)
          /\ ~heap'.bad
     /\ (vampire_get_literals /\ call'.ret = CInt(0)) =>
          heap'.live \ heap.live = {out_literals'} \ {NullPtr}
     /\ vampire_free_literals =>
          /\ heap'.live = heap.live \ {out_literals}
          /\ heap'.freed = heap.freed \cup ({out_literals} \ {NullPtr})
          /\ ~heap'.bad]_vars

\* A proof of several steps, one of them without premises, has been
\* extracted and released.
C20_Witness ==
  /\ call.fn = "vampire_free_proof_steps"
  /\ out_steps # NullPtr
  /\ out_count >= 2
  /\ \E i \in DOMAIN out_steps.steps : out_steps.steps[i].premise_ids = NullPtr
  /\ Cardinality(BlocksOfSteps(out_steps)) >= 2
  /\ BlocksOfSteps(out_steps) \subseteq heap.freed
  /\ heap.live = {}


C17_ResetIsFreshStart ==
  [][(proveBegin /\ lastOp = "reset") =>
       /\ attempt'.fresh
       /\ lastNumber = 0]_vars

\* C19: an attempt on a satisfiable problem, such as the single clause P(a),
\* never returns PROOF, also after earlier attempts that returned PROOF.
C19_SatisfiableNeverProof ==
  result.attempt.kind = "sat" =>
    /\ result.cpp \in {"SATISFIABLE", "INCOMPLETE", "TIMEOUT", "MEMORY_LIMIT", "UNKNOWN"}
    /\ result.c # "VAMPIRE_PROOF"

\* The second attempt, on a satisfiable problem and started after a light
\* reset, has returned SATISFIABLE while the refutation of the first attempt
\* is still recorded.
C19_Witness ==
  /\ Returned("prove")
  /\ proveCallCount = 2
  /\ result.attempt = [kind |-> "sat", fresh |-> TRUE]
  /\ result.cpp = "SATISFIABLE"
  /\ getRefutation # NullUnit


\* C21: prepareForNextProof unsets the global ordering and leaves no valid
\* entry in the static ordering caches, the weight cache and the
\* equality-orientation cache; so the attempt that starts after it finds, as
\* valid cache entries, only those written under the ordering it installs.
C21_NoCacheOutlivesItsOrdering ==
  [][/\ prepareForNextProof =>
          /\ globalOrdering' = 0
          /\ staticCaches' = {}
          /\ \A e \in sharing'.kboWeights : ~e.valid
          /\ sharing'.eqArgOrders = {}
     /\ (proveBegin /\ lastOp = "prepareForNextProof") =>
          /\ staticCaches' = {globalOrdering'}
          /\ \A e \in sharing'.kboWeights : e.valid => e.ord = globalOrdering'
          /\ sharing'.eqArgOrders = {globalOrdering'}]_vars

\* The second attempt runs under its own ordering after a light reset: the
\* weight cache entry of the first ordering is there and invalid, the other
\* caches hold entries of the second ordering only.
C21_Witness ==
  /\ Searching
  /\ proveCallCount = 2
  /\ globalOrdering = 2
  /\ staticCaches = {2}
  /\ sharing.eqArgOrders = {2}
  /\ sharing.kboWeights = {[ord |-> 1, valid |-> FALSE], [ord |-> 2, valid |-> TRUE]}


\* C22: prepareForNextProof leaves the resource-limit latch released,
\* whether or not the previous attempt left it held; so the attempt that
\* starts after it finds the latch free and can take it.
C22_LatchReleased ==
  [][/\ prepareForNextProof => ~exitLock'
     /\ (proveBegin /\ lastOp = "prepareForNextProof") =>
          /\ ~exitLock
          /\ ~exitLock'
          /\ attempt'.kind # "none"]_vars

\* The second attempt, started after a light reset, has taken the latch
\* itself.
C22_Witness ==
  /\ Searching
  /\ proveCallCount = 2
  /\ attempt.fresh
  /\ exitLock


\* C23: prepareForNextProof records the termination reason UNKNOWN and puts
\* the timer's starting point at the reset; the attempt that starts after it
\* starts with both, and the deadline timer does not end it before its time
\* limit has elapsed since then, whatever the previous attempt left.
C23_TimerMeasuresFromReset ==
  [][/\ prepareForNextProof =>
          /\ statistics'.terminationReason = "UNKNOWN"
          /\ elapsed' = 0
     /\ (proveBegin /\ lastOp = "prepareForNextProof") =>
          /\ statistics'.terminationReason = "UNKNOWN"
          /\ elapsed' = 0
     /\ (proveEnd /\ attempt.fresh /\ statistics'.terminationReason = "TIME_LIMIT") =>
          elapsed >= TimeLimit]_vars

\* The second attempt, started after a light reset, has run for its time
\* limit and been ended by the timer.
C23_Witness ==
  /\ Returned("prove")
  /\ proveCallCount = 2
  /\ result.attempt.fresh
  /\ result.cpp = "TIMEOUT"
  /\ statistics.terminationReason = "TIME_LIMIT"
  /\ elapsed = TimeLimit


\* Unit::isFromPreprocessing for a unit numbered n under the marker m: the
\* marker is reset, or the unit was numbered before preprocessing ended.
IsFromPreprocessing(n, m) == m = 0 \/ n < m

\* C24: prepareForNextProof resets the preprocessing-end marker, so the unit
\* the next attempt creates before its search starts is classified as a
\* preprocessing unit when it is created.
C24_NewUnitsArePreprocessingUnits ==
  [][/\ prepareForNextProof => firstNonPreprocessingNumber' = 0
     /\ (proveBegin /\ lastOp = "prepareForNextProof") =>
          /\ lastNumber' > lastNumber
          /\ IsFromPreprocessing(lastNumber', firstNonPreprocessingNumber)]_vars

\* The second attempt, started after a light reset, has created unit 3,
\* which the marker of the first attempt (2) would not classify as a
\* preprocessing unit.
C24_Witness ==
  /\ Searching
  /\ proveCallCount = 2
  /\ attempt.fresh
  /\ statistics.refutation = 2
  /\ lastNumber = 3
  /\ ~IsFromPreprocessing(lastNumber, 2)
  /\ firstNonPreprocessingNumber = 4


C25_PremiseIdsAreParentsInOrder ==
  [][/\ ExtractBuild =>
          \A i \in DOMAIN steps' :
            /\ steps'[i].premiseIds = units[steps'[i].id].parents
            /\ units[steps'[i].id].parents = <<>> => Len(steps'[i].premiseIds) = 0
     /\ (vampire_extract_proof /\ call'.ret = CInt(0)) =>
          /\ out_count' = Len(steps)
          /\ Len(out_steps'.steps) = Len(steps)
          /\ \A i \in DOMAIN steps :
               /\ out_steps'.steps[i].id = steps[i].id
               /\ out_steps'.steps[i].premises = units[steps[i].id].parents
               /\ out_steps'.steps[i].premise_count = Len(units[steps[i].id].parents)]_vars

\* A proof has been extracted and stored in which a unit has the same parent
\* twice and another unit has no parent.
C25_Witness ==
  /\ pc = "done"
  /\ call.fn = "vampire_extract_proof"
  /\ call.ret = CInt(0)
  /\ \E i \in DOMAIN steps :
       /\ Len(steps[i].premiseIds) = 2
       /\ steps[i].premiseIds[1] = steps[i].premiseIds[2]
       /\ out_steps.steps[i].premise_count = 2
  /\ \E i \in DOMAIN steps :
       /\ steps[i].premiseIds = <<>>
       /\ out_steps.steps[i].premise_ids = NullPtr


CTags == {"VAMPIRE_AXIOM", "VAMPIRE_NEGATED_CONJECTURE", "VAMPIRE_CONJECTURE"}

\* C27: the proof step of a clause built by vampire_clause with a tag of
\* the enumeration has that tag as input_type; a tag outside the enumeration
\* gives an AXIOM clause, and a unit whose Kernel input type is none of
\* AXIOM, NEGATED_CONJECTURE and CONJECTURE gives a step tagged VAMPIRE_AXIOM.
C27_InputTypeSurvivesBoundary ==
  call.fn = "proof step" =>
    /\ call.of.fn = "vampire_clause" =>
         /\ call.of.input_type \in CTags =>
              call.step.input_type = call.of.input_type
         /\ call.of.input_type \notin CTags =>
              /\ call.cpp_step.inputType = "AXIOM"
              /\ call.step.input_type = "VAMPIRE_AXIOM"
    /\ call.cpp_step.inputType \notin {"AXIOM", "NEGATED_CONJECTURE", "CONJECTURE"} =>
         call.step.input_type = "VAMPIRE_AXIOM"

\* The step of a clause built by vampire_clause with VAMPIRE_CONJECTURE has
\* been converted.
C27_Witness ==
  /\ call.fn = "proof step"
  /\ call.of.fn = "vampire_clause"
  /\ call.of.input_type = "VAMPIRE_CONJECTURE"
  /\ call.cpp_step.inputType = "CONJECTURE"
  /\ call.step.input_type = "VAMPIRE_CONJECTURE"

\* C30: a unit the facade builds has no parents; axiomF and axiom tag it
\* AXIOM, conjectureF and conjecture NEGATED_CONJECTURE, clause with the tag
\* given; conjectureF stores the negation of its formula, the clause
\* builders store the literals as given, with rule INPUT; and the proof step
\* of such a unit has no premises.
C30_FacadeUnitsAreInputs ==
  /\ call.fn \in {"axiomF", "conjectureF", "axiom", "conjecture", "clause"} =>
       /\ call.ret.inference.parents = <<>>
       /\ call.ret.number = lastNumber
       /\ call.fn = "axiomF" =>
            /\ call.ret.inference.inputType = "AXIOM"
            /\ call.ret.formula = call.arg
       /\ call.fn = "conjectureF" =>
            /\ call.ret.inference.inputType = "NEGATED_CONJECTURE"
            /\ call.ret.formula = [kind |-> "not", arg |-> call.arg]
       /\ call.fn = "axiom" =>
            call.ret.inference.inputType = "AXIOM"
       /\ call.fn = "conjecture" =>
            call.ret.inference.inputType = "NEGATED_CONJECTURE"
       /\ call.fn \in {"axiom", "conjecture", "clause"} =>
            /\ call.ret.inference.rule = "INPUT"
            /\ call.ret.literals = call.arg
  /\ call.fn = "proof step" =>
       /\ call.cpp_step.premiseIds = <<>>
       /\ call.step.premise_count = 0
       /\ call.step.premise_ids = NullPtr
       /\ call.of.fn \in {"axiom", "conjecture", "clause", "vampire_clause"} =>
            call.step.rule = "VAMPIRE_RULE_INPUT"

\* The step of a unit built by conjectureF has been extracted: the unit holds
\* the negated formula, the step has no premises.
C30_Witness ==
  /\ call.fn = "proof step"
  /\ call.of.fn = "conjectureF"
  /\ call.of.ret.formula = [kind |-> "not", arg |-> AFormula]
  /\ call.step.input_type = "VAMPIRE_NEGATED_CONJECTURE"
  /\ call.step.premise_count = 0


\* The number of pushes of one iteration of the loop: the stack after it,
\* less the stack before it without the popped top.
PushesOfIteration == Len(toProcess') - (Len(toProcess) - 1)

\* C28: on every finite parent relation, acyclic or not, an iteration of
\* the loop either records a unit not recorded before and pushes one entry
\* per parent edge of it, or records nothing and pushes nothing; and
\* extraction eventually leaves the loop with the stack empty.
C28_ExtractionTerminates ==
  /\ [][(pc = "loop" /\ pc' = "loop") =>
          IF unitsInOrder' # unitsInOrder
            THEN \E u \in 1..MaxUnits :
                   /\ u \notin Range(unitsInOrder)
                   /\ unitsInOrder' = Append(unitsInOrder, u)
                   /\ PushesOfIteration = Len(units[u].parents)
            ELSE PushesOfIteration = 0]_vars
  /\ [][(pc = "idle" /\ pc' = "loop") => toProcess' = <<refutation>>]_vars
  /\ <>(pc = "done" /\ toProcess = <<>>)

\* Extraction has returned on a graph where unit 1 is reachable from the
\* terminal unit along two paths and lies on a cycle through it.
C28_Witness ==
  /\ pc = "done"
  /\ toProcess = <<>>
  /\ refutation = 3
  /\ units[3].parents = <<2, 1>>
  /\ units[2].parents = <<1>>
  /\ units[1].parents = <<3>>
  /\ Len(steps) = 3

====
